---- MODULE Spec2Model ----
(***************************************************************************)
(* A model of taskwarrior-rofi (src/src/main.rs): a menu loop that drives  *)
(* two external programs, the task store (`task`) and the menu picker      *)
(* (`rofi`), plus the platform open handler.                               *)
(*                                                                         *)
(* Strings are sequences of Unicode code points; a code point's UTF-8      *)
(* width is computed, so byte lengths and byte slices are what Rust's      *)
(* str::len and &s[..n] see.                                               *)
(***************************************************************************)
EXTENDS Integers, Sequences, FiniteSets, TLC

VARIABLES
    pc,         \* position of the single thread of control
    action,     \* the Action chosen in the action menu for the current step
    store,      \* the external task store: sequence of task records, by uuid
    task,       \* ui's local `task`: the snapshot returned by task_rofi
    input,      \* the text the last free-text / wait prompt returned
    ops,        \* external invocations of the current step, oldest first
    fail,       \* "none", or what kind of failure has happened
    failAt,     \* Len(ops) when the failure happened
    dismissed,  \* "none", or the picker the user dismissed last
    popups,     \* number of error popups main has shown
    opened,     \* descriptions handed to the open handler, oldest first
    items,      \* the labelled list built for the next rich_rofi call
    choice,     \* open_annotation's `choice`
    answer,     \* what the picker answered to the last rich_rofi call
    steps,      \* number of actions chosen so far
    ended,      \* "no", or how the loop ended
    call,       \* pure-function harness: the call being made
    ret         \* pure-function harness: its result

vars == <<pc, action, store, task, input, ops, fail, failAt, dismissed,
          popups, opened, items, choice, answer, steps, ended, call, ret>>

uivars == <<pc, action, store, task, input, ops, fail, failAt, dismissed,
            popups, opened, items, choice, answer, steps, ended>>

-----------------------------------------------------------------------------
(* Bounds of the model                                                     *)

MaxSteps == 2      \* actions chosen in one run
MaxTasks == 2      \* task records in the store
MaxAnns == 3       \* annotations on one task
MaxItems == 3      \* list length in the rich_rofi harness
MaxAscii == 62     \* leading ASCII characters of a harness description
MaxWide == 2       \* multi-byte characters of a harness description
MaxTail == 2       \* trailing ASCII characters of a harness description

(* Program constant: format_task's max_desc                                *)
max_desc == 60

\* Option<T>: None is the empty tuple, Some(x) the one-element tuple
None == <<>>
Some(x) == <<x>>
IsSome(o) == o # <<>>
Unwrap(o) == o[1]

-----------------------------------------------------------------------------
(* Strings as sequences of code points                                     *)

\* UTF-8 width of one code point (char::len_utf8)
len_utf8(c) == IF c < 128 THEN 1 ELSE IF c < 2048 THEN 2 ELSE IF c < 65536 THEN 3 ELSE 4

RECURSIVE ByteLen(_)
\* str::len: the length in bytes
ByteLen(s) == IF s = <<>> THEN 0 ELSE len_utf8(Head(s)) + ByteLen(Tail(s))

RECURSIVE is_char_boundary(_, _)
\* str::is_char_boundary(n): n is 0, the byte length, or the start of a code point
is_char_boundary(s, n) ==
    IF n = 0 THEN TRUE
    ELSE IF s = <<>> THEN FALSE
    ELSE IF len_utf8(Head(s)) > n THEN FALSE
    ELSE is_char_boundary(Tail(s), n - len_utf8(Head(s)))

RECURSIVE slice_to(_, _)
\* &s[..n] for n on a char boundary: the code points held in the first n bytes
slice_to(s, n) ==
    IF n = 0 \/ s = <<>> THEN <<>>
    ELSE <<Head(s)>> \o slice_to(Tail(s), n - len_utf8(Head(s)))

Spaces(n) == [i \in 1..n |-> 32]

\* format!("{:<width$}", s): left-aligned, padded with spaces to `width`
\* characters (the width counts characters, not bytes); never truncates
pad_left_aligned(s, width) == IF Len(s) >= width THEN s ELSE s \o Spaces(width - Len(s))

\* format!("{:>width$}", s): right-aligned
pad_right_aligned(s, width) == IF Len(s) >= width THEN s ELSE Spaces(width - Len(s)) \o s

RECURSIVE Digits(_)
\* decimal digits of a natural number
Digits(n) == IF n < 10 THEN <<48 + n>> ELSE Digits(n \div 10) \o <<48 + (n % 10)>>

RECURSIVE join(_, _)
\* parts.join(sep)
join(parts, sep) ==
    IF parts = <<>> THEN <<>>
    ELSE IF Len(parts) = 1 THEN parts[1]
    ELSE parts[1] \o sep \o join(Tail(parts), sep)

\* "..." and " "
Ellipsis == <<46, 46, 46>>
Space == <<32>>

\* format!("(u={:+.2})", urgency); the urgency is held in hundredths
format_urgency(u) ==
    LET a == IF u < 0 THEN -u ELSE u
        frac == a % 100
    IN  <<40, 117, 61>> \o <<(IF u < 0 THEN 45 ELSE 43)>> \o Digits(a \div 100)
        \o <<46>> \o <<48 + (frac \div 10), 48 + (frac % 10)>> \o <<41>>

\* format_task's description part when the byte length exceeds max_desc:
\* &description[..max_desc - 3] followed by "...". The slice panics when
\* byte max_desc - 3 is inside a code point.
truncate_desc(d) ==
    IF is_char_boundary(d, max_desc - 3)
    THEN [kind |-> "ok", text |-> slice_to(d, max_desc - 3) \o Ellipsis]
    ELSE [kind |-> "panic", text |-> <<>>]

\* format_task's description part
desc_part(d) ==
    IF ByteLen(d) <= max_desc
    THEN [kind |-> "ok", text |-> pad_left_aligned(d, max_desc)]
    ELSE truncate_desc(d)

\* format_task(task): the label of a task, with its parts
format_task(t) ==
    LET idp == IF IsSome(t.id)
               THEN <<91>> \o pad_right_aligned(Digits(Unwrap(t.id)), 2) \o <<93>>
               ELSE <<91, 45, 45, 93>>
        dp == desc_part(t.description)
        up == IF IsSome(t.urgency) THEN <<format_urgency(Unwrap(t.urgency))>> ELSE <<>>
        pp == IF IsSome(t.project)
              THEN <<(<<112, 114, 111, 106, 58>> \o Unwrap(t.project))>> ELSE <<>>
        parts == <<idp, dp.text>> \o up \o pp
    IN  IF dp.kind = "panic" THEN [kind |-> "panic"]
        ELSE [kind |-> "ok", parts |-> parts, label |-> join(parts, Space)]

-----------------------------------------------------------------------------
(* LabeledItem and rich_rofi                                               *)

\* a swap_remove that hands back the element swapped in, not the one removed
swap_remove_last(xs, idx) ==
    IF idx >= Len(xs) THEN [kind |-> "panic"]
    ELSE [kind |-> "ok",
          removed |-> xs[Len(xs)],
          rest |-> [i \in 1..(Len(xs) - 1) |-> xs[i]]]

\* Vec::swap_remove(idx), idx counted from 0: the element at idx is removed
\* and returned, the last element takes its place. Panics when idx >= len.
swap_remove(xs, idx) ==
    IF idx >= Len(xs) THEN [kind |-> "panic"]
    ELSE [kind |-> "ok",
          removed |-> xs[idx + 1],
          rest |-> [i \in 1..(Len(xs) - 1) |->
                      IF i = idx + 1 THEN xs[Len(xs)] ELSE xs[i]]]

\* the labels handed to Rofi::new, in list order
labels_of(xs) == [i \in 1..Len(xs) |-> xs[i].label]

\* rich_rofi(prompt, items) given the picker's answer r for the labels shown:
\* r.kind is "ok" (with r.idx), "Interrupted" or "Error"
rich_rofi(xs, r) ==
    IF r.kind # "ok" THEN [kind |-> r.kind]
    ELSE LET sr == swap_remove(xs, r.idx)
         IN  IF sr.kind = "panic" THEN [kind |-> "panic"]
             ELSE [kind |-> "ok", item |-> sr.removed.item]

\* What the picker can answer for a list of n labels: the index of a row,
\* a dismissal (rofi::Error::Interrupted) or another rofi::Error
RofiAnswers(n) ==
    {[kind |-> "ok", idx |-> i] : i \in 0..(n - 1)}
        \cup {[kind |-> "Interrupted", idx |-> 0], [kind |-> "Error", idx |-> 0]}

-----------------------------------------------------------------------------
(* task_rofi's list: sorted by urgency, then labelled                      *)

\* `as i32` on a float: saturating
as_i32(x) ==
    IF x > 2147483647 THEN 2147483647
    ELSE IF x < -2147483647 - 1 THEN -2147483647 - 1 ELSE x

\* task.urgency().map(|u| (-u * 10_000f64) as i32); urgency in hundredths
urgency_key(t) == IF IsSome(t.urgency) THEN Some(as_i32(-(Unwrap(t.urgency) * 100))) ELSE None

\* Ord on Option<i32>: None sorts before Some
key_le(a, b) == a = None \/ (b # None /\ Unwrap(a) <= Unwrap(b))

Perms(n) == {p \in [1..n -> 1..n] : \A i, j \in 1..n : i # j => p[i] # p[j]}

\* sort_unstable_by_key: every ordering of xs that is sorted by the key (the
\* order of equal keys is not specified)
sort_unstable_by_key(xs) ==
    {[i \in 1..Len(xs) |-> xs[p[i]]] : p \in
        {q \in Perms(Len(xs)) :
            \A i \in 1..(Len(xs) - 1) : key_le(urgency_key(xs[q[i]]), urgency_key(xs[q[i + 1]]))}}

\* does format_task panic on one of the tasks
label_panics(ts) == \E i \in 1..Len(ts) : format_task(ts[i]).kind = "panic"

\* tasks.into_iter().map(|task| LabeledItem { label: format_task(&task), item: task })
label_tasks(ts) == [i \in 1..Len(ts) |-> [label |-> format_task(ts[i]).label, item |-> ts[i]]]

-----------------------------------------------------------------------------
(* Data of the menu loop                                                   *)

\* Action::all(), in menu order
Action_all == <<"List", "Add", "Done", "Start", "Stop", "Delete", "Open",
                "Mod", "Wait", "Annotate", "Exit">>

\* impl Display for Action
Action_fmt(a) == IF a = "Exit" THEN "Exit (Escape)" ELSE a

\* impl From<T> for LabeledItem<T>, mapped over Action::all()
ActionItems == [i \in 1..Len(Action_all) |-> [label |-> Action_fmt(Action_all[i]),
                                              item |-> Action_all[i]]]

\* str::starts_with
starts_with(s, prefix) == Len(s) >= Len(prefix) /\ SubSeq(s, 1, Len(prefix)) = prefix

\* "https://" and "http://"
Https == <<104, 116, 116, 112, 115, 58, 47, 47>>
Http == <<104, 116, 116, 112, 58, 47, 47>>

\* a filter that takes every description starting with "http" for a link
is_link_lax(ann) == starts_with(ann.description, <<104, 116, 116, 112>>)

\* the filter of open_annotation
is_link(ann) == starts_with(ann.description, Https) \/ starts_with(ann.description, Http)

RECURSIVE str_lt(_, _)
\* Ord on str: lexicographic
str_lt(a, b) ==
    IF b = <<>> THEN FALSE
    ELSE IF a = <<>> THEN TRUE
    ELSE IF Head(a) # Head(b) THEN Head(a) < Head(b)
    ELSE str_lt(Tail(a), Tail(b))

\* entry.format("%Y-%m-%d"): the day of a date-time, zero-padded
format_date(e) ==
    LET zero(s, w) == IF Len(s) >= w THEN s ELSE [i \in 1..(w - Len(s)) |-> 48] \o s
    IN  zero(Digits(e.y), 4) \o <<45>> \o zero(Digits(e.m), 2) \o <<45>> \o zero(Digits(e.d), 2)

\* format!("{} {}", ann.entry().format("%Y-%m-%d"), ann.description())
annotation_label(ann) == format_date(ann.entry) \o Space \o ann.description

RECURSIVE insert_desc(_, _)
\* place x after every element whose label is not smaller (stable, descending)
insert_desc(sorted, x) ==
    IF sorted = <<>> THEN <<x>>
    ELSE IF str_lt(Head(sorted).label, x.label) THEN <<x>> \o sorted
    ELSE <<Head(sorted)>> \o insert_desc(Tail(sorted), x)

RECURSIVE sort_desc_from(_, _)
sort_desc_from(sorted, rest) ==
    IF rest = <<>> THEN sorted
    ELSE sort_desc_from(insert_desc(sorted, Head(rest)), Tail(rest))

\* labeled.sort_by(|a, b| a.label.cmp(&b.label).reverse()): stable
sort_by_label_reverse(xs) == sort_desc_from(<<>>, xs)

\* the annotations of a task that are links, in the task's order
with_links(t) ==
    LET anns == Unwrap(t.annotations)
        keep(i) == is_link(anns[i])
        F[i \in 0..Len(anns)] ==
            IF i = 0 THEN <<>> ELSE IF keep(i) THEN Append(F[i - 1], anns[i]) ELSE F[i - 1]
    IN  F[Len(anns)]

\* open_annotation up to the open handler: an error, the one link, or the
\* menu of several links
open_annotation(t) ==
    IF ~IsSome(t.annotations) THEN [kind |-> "err", why |-> "no_annotations"]
    ELSE LET links == with_links(t)
         IN  IF Len(links) = 0 THEN [kind |-> "err", why |-> "no_links"]
             ELSE IF Len(links) = 1 THEN [kind |-> "one", choice |-> links[1]]
             ELSE [kind |-> "menu",
                   labeled |-> sort_by_label_reverse(
                       [i \in 1..Len(links) |-> [label |-> annotation_label(links[i]),
                                                 item |-> links[i]]])]

RECURSIVE split_dashes(_, _)
\* input.split("--"): cur is the segment being read
split_dashes(s, cur) ==
    IF s = <<>> THEN <<cur>>
    ELSE IF Len(s) >= 2 /\ s[1] = 45 /\ s[2] = 45
         THEN <<cur>> \o split_dashes(SubSeq(s, 3, Len(s)), <<>>)
         ELSE split_dashes(Tail(s), Append(cur, Head(s)))

RECURSIVE trim_start(_)
trim_start(s) == IF s # <<>> /\ Head(s) = 32 THEN trim_start(Tail(s)) ELSE s

RECURSIVE trim_end(_)
trim_end(s) == IF s # <<>> /\ s[Len(s)] = 32 THEN trim_end(SubSeq(s, 1, Len(s) - 1)) ELSE s

\* str::trim
trim(s) == trim_end(trim_start(s))

RECURSIVE split_whitespace(_, _)
\* str::split_whitespace: the non-empty words
split_whitespace(s, cur) ==
    IF s = <<>> THEN (IF cur = <<>> THEN <<>> ELSE <<cur>>)
    ELSE IF Head(s) = 32
         THEN (IF cur = <<>> THEN <<>> ELSE <<cur>>) \o split_whitespace(Tail(s), <<>>)
         ELSE split_whitespace(Tail(s), Append(cur, Head(s)))

\* the Add branch of ui: (task_text, annotations) from the prompt's input
parse_add_input(s) ==
    LET parts == split_dashes(s, <<>>)
    IN  [text |-> parts[1],
         annotations |-> [i \in 1..(Len(parts) - 1) |-> trim(parts[i + 1])],
         task_id |-> 0]

\* how many annotations a task holds
annotation_count(t) == IF IsSome(t.annotations) THEN Len(Unwrap(t.annotations)) ELSE 0

\* Annotation::new(now, text)
Annotation_new(now, text) == [entry |-> now, description |-> text]

\* the Annotate branch and add_task: push onto the task's annotations, or
\* set them when the task has none
push_annotations(t, new) ==
    IF IsSome(t.annotations)
    THEN [t EXCEPT !.annotations = Some(Unwrap(t.annotations) \o new)]
    ELSE [t EXCEPT !.annotations = Some(new)]

-----------------------------------------------------------------------------
(* The task store, seen through the commands the program runs              *)

\* a record as `task add` creates it
NewTask(uuid, desc, urg) ==
    [uuid |-> uuid, id |-> Some(uuid), description |-> desc, urgency |-> urg,
     project |-> None, status |-> "pending", start |-> None,
     annotations |-> None, wait |-> None]

\* `task add <words>`: a new pending record, described by the words
StoreAdd(st, words, urg) == Append(st, NewTask(Len(st) + 1, join(words, Space), urg))

\* `task <uuid> mod <attr>:<value>`: one attribute of one record is set
StoreModify(st, uuid, m) == [st EXCEPT ![uuid] = [@ EXCEPT ![m.attr] = m.value]]

\* tw::save (`task import`): the record of that uuid is replaced wholesale
\* by the task handed in
StoreImport(st, t) == [st EXCEPT ![t.uuid] = t]

\* tw::query(default filter) (`task export`): the pending records, in store order
StoreQuery(st) == SelectSeq(st, LAMBDA t : t.status = "pending")

-----------------------------------------------------------------------------
(* Inputs of the model                                                     *)

\* "https://a", "http://b", and "httpx", which is no link
LinkA == Https \o <<97>>
LinkB == Http \o <<98>>
Note == <<104, 116, 116, 112, 120>>

\* date-times the clock may show
Day1 == [y |-> 2024, m |-> 5, d |-> 9, h |-> 8]
Day1Late == [y |-> 2024, m |-> 5, d |-> 9, h |-> 20]
Day2 == [y |-> 2024, m |-> 5, d |-> 10, h |-> 8]
Times == {Day1, Day2}

\* what the user types at "task -- annotation": "t" and "t -- https://a"
AddInputs == {<<116>>, <<116, 32, 45, 45, 32>> \o LinkA}

\* what the user types at "annotation"
AnnotateInputs == {LinkB, Note}

\* what the user picks or types at "Wait until?"
WaitInputs == {"tomorrow", "1h"}

\* what the user types at "Mods for task": project:x
ModInputs == {[attr |-> "project", value |-> Some(<<120>>)]}

\* urgencies the store reports for a new task, in hundredths
NewUrgencies == {Some(250)}

\* a description of 31 two-byte characters: 62 bytes, byte 57 inside a character
WideDesc == [i \in 1..31 |-> 233]

\* annotations the first task starts with
InitAnnotations ==
    {None,
     Some(<<>>),
     Some(<<Annotation_new(Day1, Note)>>),
     Some(<<Annotation_new(Day1, LinkA)>>),
     Some(<<Annotation_new(Day1, LinkA), Annotation_new(Day2, LinkB)>>),
     Some(<<Annotation_new(Day2, LinkB), Annotation_new(Day1, Note), Annotation_new(Day1, LinkA)>>),
     Some(<<Annotation_new(Day1, LinkA), Annotation_new(Day1Late, LinkA)>>)}

InitDescriptions == {<<116, 49>>, WideDesc}

\* ways a task command fails: non-zero exit, output that is not UTF-8
CommandFailures == {"nonzero", "non_utf8"}

NoTask == <<>>

\* no rich_rofi call has been answered yet
NoAnswer == [kind |-> "none", idx |-> 0]

\* the harness is idle while the menu loop runs
NoCall == [fn |-> "none"]

Pending == [kind |-> "pending"]

-----------------------------------------------------------------------------
(* The menu loop: main, ui and the functions ui calls. One action per      *)
(* external invocation, with the code that follows it up to the next one.  *)

Init ==
    /\ pc = "menu" /\ action = "none"
    /\ \E d \in InitDescriptions, a \in InitAnnotations :
         store = <<[NewTask(1, d, Some(250)) EXCEPT !.annotations = a]>>
    /\ task = NoTask /\ input = <<>> /\ ops = <<>>
    /\ fail = "none" /\ failAt = 0 /\ dismissed = "none"
    /\ popups = 0 /\ opened = <<>> /\ items = <<>> /\ choice = <<>>
    /\ answer = NoAnswer /\ steps = 0 /\ ended = "no"
    /\ call = NoCall /\ ret = Pending

\* an error after which the loop goes on with its next iteration
Raise_Retry(kind, o) ==
    /\ pc' = "menu" /\ fail' = kind /\ failAt' = Len(o) /\ ops' = o
    /\ UNCHANGED <<action, store, task, input, dismissed, popups, opened, items,
                   choice, steps, ended, call, ret>>

\* an Err other than a dismissal reaches main, which will show the popup
Raise(kind, o) ==
    /\ pc' = "main_err" /\ fail' = kind /\ failAt' = Len(o) /\ ops' = o
    /\ UNCHANGED <<action, store, task, input, dismissed, popups, opened, items,
                   choice, steps, ended, call, ret>>

\* a main without the Interrupted arm: a dismissal is shown as an error
Dismiss_Popup(picker, o) ==
    /\ pc' = "main_err" /\ dismissed' = picker /\ ops' = o
    /\ UNCHANGED <<action, store, task, input, fail, failAt, popups, opened, items,
                   choice, steps, ended, call, ret>>

\* rofi::Error::Interrupted reaches main, which does nothing
Dismiss(picker, o) ==
    /\ pc' = "exited" /\ ended' = "Interrupted" /\ dismissed' = picker /\ ops' = o
    /\ UNCHANGED <<action, store, task, input, fail, failAt, popups, opened, items,
                   choice, steps, call, ret>>

\* a panic: the process aborts where it is
Panic(kind, o) ==
    /\ pc' = "exited" /\ ended' = "panic" /\ fail' = kind /\ failAt' = Len(o) /\ ops' = o
    /\ UNCHANGED <<action, store, task, input, dismissed, popups, opened, items,
                   choice, steps, call, ret>>

\* the end of a loop iteration: back to the top of `loop`
Continue(o) ==
    /\ pc' = "menu" /\ ops' = o
    /\ UNCHANGED <<action, fail, failAt, dismissed, popups, opened, steps, ended, call, ret>>

\* on to the next external invocation of the same iteration
Goto(next, o) ==
    /\ pc' = next /\ ops' = o
    /\ UNCHANGED <<action, fail, failAt, dismissed, popups, opened, steps, ended, call, ret>>

\* ui: rich_rofi("Choose an action", Action::all()) and the match on it
ActionMenu ==
    /\ pc = "menu" /\ steps < MaxSteps
    /\ \E r \in RofiAnswers(Len(Action_all)) :
         LET o == <<"rofi:action">>
             res == rich_rofi(ActionItems, r)
         IN  /\ ops' = o
             /\ task' = NoTask /\ input' = <<>> /\ items' = ActionItems /\ choice' = <<>>
             /\ answer' = r
             /\ UNCHANGED <<store, popups, opened, call, ret>>
             /\ \/ /\ res.kind = "ok" /\ res.item = "Exit"
                   /\ pc' = "exited" /\ ended' = "Exit" /\ action' = res.item
                   /\ steps' = steps + 1 /\ dismissed' = "none"
                   /\ UNCHANGED <<fail, failAt>>
                \/ /\ res.kind = "ok" /\ res.item = "Add" /\ Len(store) < MaxTasks
                   /\ pc' = "add_input" /\ action' = res.item
                   /\ steps' = steps + 1 /\ dismissed' = "none"
                   /\ UNCHANGED <<fail, failAt, ended>>
                \/ /\ res.kind = "ok" /\ res.item \notin {"Exit", "Add"}
                   /\ pc' = "show_default_command" /\ action' = res.item
                   /\ steps' = steps + 1 /\ dismissed' = "none"
                   /\ UNCHANGED <<fail, failAt, ended>>
                \/ /\ res.kind = "Interrupted"
                   /\ pc' = "exited" /\ ended' = "Interrupted" /\ action' = "none"
                   /\ dismissed' = "action"
                   /\ UNCHANGED <<fail, failAt, steps>>
                \/ /\ res.kind = "Error"
                   /\ pc' = "main_err" /\ fail' = "rofi" /\ failAt' = Len(o)
                   /\ action' = "none" /\ dismissed' = "none"
                   /\ UNCHANGED <<steps, ended>>

\* ui, Action::Add: the "task -- annotation" prompt and the split of its input
AddInput ==
    /\ pc = "add_input"
    /\ UNCHANGED answer
    /\ LET o == Append(ops, "rofi:add")
       IN  \/ \E s \in AddInputs :
                /\ input' = parse_add_input(s)
                /\ Goto("add_command", o)
                /\ UNCHANGED <<store, task, items, choice>>
           \/ Dismiss("add", o)
           \/ Raise("rofi", o)

\* add_task: task_command(["add", words...]) and the check of its stdout
AddCommand ==
    /\ pc = "add_command"
    /\ UNCHANGED answer
    /\ LET o == Append(ops, "task:add")
       IN  \/ \E u \in NewUrgencies :
                /\ store' = StoreAdd(store, split_whitespace(input.text, <<>>), u)
                /\ input' = [input EXCEPT !.task_id = Len(store) + 1]
                /\ UNCHANGED <<task, items, choice>>
                /\ IF input.annotations = <<>> THEN Continue(o) ELSE Goto("add_query", o)
           \/ \E k \in CommandFailures : Raise(k, o)
           \/ Raise("marker", o)

\* add_task: tw::query(task_id), the length check, the new annotations
AddQuery ==
    /\ pc = "add_query"
    /\ UNCHANGED answer
    /\ LET o == Append(ops, "tw:query")
       IN  \/ \E now \in Times :
                /\ task' = push_annotations(store[input.task_id],
                              [i \in 1..Len(input.annotations) |->
                                  Annotation_new(now, input.annotations[i])])
                /\ Goto("add_save", o)
                /\ UNCHANGED <<store, input, items, choice>>
           \/ Raise("query", o)
           \/ Raise("count", o)

\* add_task: tw::save(Some(&*task))
AddSave ==
    /\ pc = "add_save"
    /\ UNCHANGED answer
    /\ LET o == Append(ops, "tw:save")
       IN  \/ /\ store' = StoreImport(store, task)
              /\ Continue(o)
              /\ UNCHANGED <<task, input, items, choice>>
           \/ Raise("save", o)

\* task_rofi: get_config_var("default.command")
ShowDefaultCommand ==
    /\ pc = "show_default_command"
    /\ UNCHANGED answer
    /\ LET o == Append(ops, "task:show")
       IN  \/ /\ Goto("show_filter", o)
              /\ UNCHANGED <<store, task, input, items, choice>>
           \/ \E k \in CommandFailures : Raise(k, o)
           \/ Raise("config_missing", o)

\* task_rofi: get_config_var("report.<default command>.filter")
ShowFilter ==
    /\ pc = "show_filter"
    /\ UNCHANGED answer
    /\ LET o == Append(ops, "task:show")
       IN  \/ /\ Goto("query", o)
              /\ UNCHANGED <<store, task, input, items, choice>>
           \/ \E k \in CommandFailures : Raise(k, o)
           \/ Raise("config_missing", o)

\* a task_rofi that lists the tasks without asking the store
Query_Cached ==
    /\ pc = "query"
    /\ UNCHANGED answer
    /\ ~label_panics(StoreQuery(store))
    /\ \E sorted \in sort_unstable_by_key(StoreQuery(store)) : items' = label_tasks(sorted)
    /\ Goto("pick", ops)
    /\ UNCHANGED <<store, task, input, choice>>

\* task_rofi: tw::query(&default_filter).unwrap(), the sort, the labels
Query ==
    /\ pc = "query"
    /\ UNCHANGED answer
    /\ LET o == Append(ops, "tw:query")
           tasks == StoreQuery(store)
       IN  \/ /\ ~label_panics(tasks)
              /\ \E sorted \in sort_unstable_by_key(tasks) : items' = label_tasks(sorted)
              /\ Goto("pick", o)
              /\ UNCHANGED <<store, task, input, choice>>
           \/ /\ label_panics(tasks)
              /\ Panic("format_task", o)
           \/ Panic("query", o)

\* the match on `action` that follows task_rofi("Choose a task"), up to the
\* next external invocation
AfterPick(t, o) ==
    \/ /\ action = "Mod"
       /\ task' = t /\ Goto("mod_input", o)
       /\ UNCHANGED <<store, input, items, choice>>
    \/ /\ action = "Done"
       /\ task' = [t EXCEPT !.status = "completed"] /\ Goto("save", o)
       /\ UNCHANGED <<store, input, items, choice>>
    \/ /\ action = "Start"
       /\ \E now \in Times : task' = [t EXCEPT !.start = Some(now)]
       /\ Goto("save", o)
       /\ UNCHANGED <<store, input, items, choice>>
    \/ /\ action = "Stop"
       /\ task' = [t EXCEPT !.start = None] /\ Goto("save", o)
       /\ UNCHANGED <<store, input, items, choice>>
    \/ /\ action = "Delete"
       /\ task' = [t EXCEPT !.status = "deleted"] /\ Goto("save", o)
       /\ UNCHANGED <<store, input, items, choice>>
    \/ /\ action = "Annotate"
       /\ task' = t /\ Goto("annotate_input", o)
       /\ UNCHANGED <<store, input, items, choice>>
    \/ /\ action = "Wait"
       /\ task' = t /\ Goto("wait_input", o)
       /\ UNCHANGED <<store, input, items, choice>>
    \/ /\ action = "Open" /\ open_annotation(t).kind = "err"
       /\ task' = t
       /\ pc' = "main_err" /\ fail' = open_annotation(t).why /\ failAt' = Len(o) /\ ops' = o
       /\ UNCHANGED <<action, store, input, dismissed, popups, opened, items, choice,
                      steps, ended, call, ret>>
    \/ /\ action = "Open" /\ open_annotation(t).kind = "one"
       /\ task' = t /\ choice' = open_annotation(t).choice
       /\ Goto("open_that", o)
       /\ UNCHANGED <<store, input, items>>
    \/ /\ action = "Open" /\ open_annotation(t).kind = "menu"
       /\ task' = t /\ items' = open_annotation(t).labeled
       /\ Goto("annotation_pick", o)
       /\ UNCHANGED <<store, input, choice>>

\* task_rofi: rich_rofi(prompt, labeled_tasks), and what ui does with it
PickTask ==
    /\ pc = "pick"
    /\ \E r \in RofiAnswers(Len(items)) :
         LET o == Append(ops, "rofi:task")
             res == rich_rofi(items, r)
         IN  /\ answer' = r
             /\ \/ /\ res.kind = "ok" /\ action = "List"
                   /\ Continue(o)
                   /\ UNCHANGED <<store, task, input, items, choice>>
                \/ /\ res.kind = "ok" /\ action # "List"
                   /\ AfterPick(res.item, o)
                \/ /\ res.kind = "Interrupted" /\ action = "List"
                   /\ pc' = "menu" /\ ops' = o /\ dismissed' = "task"
                   /\ UNCHANGED <<action, store, task, input, fail, failAt, popups,
                                  opened, items, choice, steps, ended, call, ret>>
                \/ /\ res.kind = "Interrupted" /\ action # "List"
                   /\ Dismiss("task", o)
                \/ /\ res.kind = "Error"
                   /\ Raise("rofi", o)

\* mod_task: the "Mods for task" prompt
ModInput ==
    /\ pc = "mod_input"
    /\ UNCHANGED answer
    /\ LET o == Append(ops, "rofi:mod")
       IN  \/ \E m \in ModInputs :
                /\ input' = m
                /\ Goto("mod_command", o)
                /\ UNCHANGED <<store, task, items, choice>>
           \/ Dismiss("mod", o)
           \/ Raise("rofi", o)

\* mod_task: task_command([task_id, "mod", words...])
ModCommand ==
    /\ pc = "mod_command"
    /\ UNCHANGED answer
    /\ LET o == Append(ops, "task:mod")
       IN  \/ /\ store' = StoreModify(store, task.uuid, input)
              /\ Continue(o)
              /\ UNCHANGED <<task, input, items, choice>>
           \/ \E k \in CommandFailures : Raise(k, o)

\* open_annotation: rich_rofi("Choose annotation", labeled)
AnnotationPick ==
    /\ pc = "annotation_pick"
    /\ \E r \in RofiAnswers(Len(items)) :
         LET o == Append(ops, "rofi:annotation")
             res == rich_rofi(items, r)
         IN  /\ answer' = r
             /\ \/ /\ res.kind = "ok"
                   /\ choice' = res.item
                   /\ Goto("open_that", o)
                   /\ UNCHANGED <<store, task, input, items>>
                \/ /\ res.kind = "Interrupted"
                   /\ Dismiss("annotation", o)
                \/ /\ res.kind = "Error"
                   /\ Raise("rofi", o)

\* an Open branch without its break: the loop goes on to the save
OpenThat_NoBreak ==
    /\ pc = "open_that"
    /\ UNCHANGED answer
    /\ opened' = Append(opened, choice.description)
    /\ pc' = "save" /\ ops' = Append(ops, "open")
    /\ UNCHANGED <<action, store, task, input, fail, failAt, dismissed, popups,
                   items, choice, steps, ended, call, ret>>

\* open_annotation: open::that(choice.description()); on success ui breaks
\* out of the loop
OpenThat ==
    /\ pc = "open_that"
    /\ UNCHANGED answer
    /\ LET o == Append(ops, "open")
       IN  \/ /\ pc' = "exited" /\ ended' = "Open" /\ ops' = o
              /\ opened' = Append(opened, choice.description)
              /\ UNCHANGED <<action, store, task, input, fail, failAt, dismissed, popups,
                             items, choice, steps, call, ret>>
           \/ /\ pc' = "main_err" /\ fail' = "open" /\ failAt' = Len(o) /\ ops' = o
              /\ opened' = Append(opened, choice.description)
              /\ UNCHANGED <<action, store, task, input, dismissed, popups, items,
                             choice, steps, ended, call, ret>>

\* ui, Action::Annotate: the "annotation" prompt and the push
AnnotateInput ==
    /\ pc = "annotate_input"
    /\ UNCHANGED answer
    /\ LET o == Append(ops, "rofi:annotate")
       IN  \/ /\ annotation_count(task) < MaxAnns
              /\ \E text \in AnnotateInputs, now \in Times :
                   task' = push_annotations(task, <<Annotation_new(now, text)>>)
              /\ Goto("save", o)
              /\ UNCHANGED <<store, input, items, choice>>
           \/ Dismiss("annotate", o)
           \/ Raise("rofi", o)

\* ui, Action::Wait: the "Wait until?" prompt
WaitInput ==
    /\ pc = "wait_input"
    /\ UNCHANGED answer
    /\ LET o == Append(ops, "rofi:wait")
       IN  \/ \E w \in WaitInputs :
                /\ input' = w
                /\ Goto("wait_command", o)
                /\ UNCHANGED <<store, task, items, choice>>
           \/ Dismiss("wait", o)
           \/ Raise("rofi", o)

\* ui, Action::Wait: task_command([uuid, "mod", "wait:<input>"])
WaitCommand ==
    /\ pc = "wait_command"
    /\ UNCHANGED answer
    /\ LET o == Append(ops, "task:mod")
       IN  \/ /\ store' = StoreModify(store, task.uuid, [attr |-> "wait", value |-> Some(input)])
              /\ Goto("save", o)
              /\ UNCHANGED <<task, input, items, choice>>
           \/ \E k \in CommandFailures : Raise(k, o)

\* ui: tw::save(Some(&task)).map_failure()?
Save ==
    /\ pc = "save"
    /\ UNCHANGED answer
    /\ LET o == Append(ops, "tw:save")
       IN  \/ /\ store' = StoreImport(store, task)
              /\ Continue(o)
              /\ UNCHANGED <<task, input, items, choice>>
           \/ Raise("save", o)

\* main: the popup for an error that is no dismissal; expect() panics when
\* the popup itself fails
ErrorPopup ==
    /\ pc = "main_err"
    /\ UNCHANGED answer
    /\ pc' = "exited" /\ popups' = popups + 1 /\ ops' = Append(ops, "rofi:error")
    /\ \/ ended' = "error"
       \/ ended' = "panic"
    /\ UNCHANGED <<action, store, task, input, fail, failAt, dismissed, opened,
                   items, choice, steps, call, ret>>

Next ==
    \/ ActionMenu \/ AddInput \/ AddCommand \/ AddQuery \/ AddSave
    \/ ShowDefaultCommand \/ ShowFilter \/ Query \/ PickTask
    \/ ModInput \/ ModCommand \/ AnnotationPick \/ OpenThat
    \/ AnnotateInput \/ WaitInput \/ WaitCommand \/ Save \/ ErrorPopup

Spec == Init /\ [][Next]_vars

-----------------------------------------------------------------------------
(* Harness for the pure functions: Init draws a call, one action makes it  *)

AsciiAt(i) == 97 + (i % 26)

\* some code points of UTF-8 width 2, 3 and 4
WideChars == {233, 8364, 128512}

\* a description: a ASCII characters, b times the wide character w, c ASCII
MkDesc(a, b, w, c) ==
    [i \in 1..(a + b + c) |-> IF i <= a \/ i > a + b THEN AsciiAt(i) ELSE w]

HarnessDescs ==
    {MkDesc(a, b, w, c) : a \in 0..MaxAscii, b \in 0..MaxWide, w \in WideChars, c \in 0..MaxTail}

HarnessTask(id, d, u, p) == [id |-> id, description |-> d, urgency |-> u, project |-> p]

NoCallTask == HarnessTask(None, <<>>, None, None)

FormatCalls ==
    {[fn |-> "format_task", task |-> HarnessTask(id, d, u, None), xs |-> <<>>,
      r |-> [kind |-> "Error", idx |-> 0]] :
        id \in {None, Some(7)}, d \in HarnessDescs, u \in {Some(-5)}}
    \cup
    {[fn |-> "format_task", task |-> HarnessTask(Some(123), d, Some(1234), Some(<<120>>)),
      xs |-> <<>>, r |-> [kind |-> "Error", idx |-> 0]] :
        d \in {MkDesc(a, 0, 233, 0) : a \in {0, max_desc, max_desc + 1}}}

\* lists of labelled items: labels may repeat, and so may items
HarnessLists ==
    UNION {[1..n -> [label : {"a", "b"}, item : 1..MaxItems]] : n \in 0..MaxItems}

\* the harness also answers with indexes the list does not have
RofiCalls ==
    {[fn |-> "rich_rofi", task |-> NoCallTask, xs |-> xs, r |-> r] :
        xs \in HarnessLists,
        r \in RofiAnswers(MaxItems + 1)}

\* task lists as a query returns them: uuid by position, urgencies drawn
HarnessTaskLists ==
    UNION {[1..n -> {HarnessTask(Some(i), MkDesc(i, 0, 233, 0), u, None) :
                        i \in 1..MaxItems, u \in {None, Some(100), Some(250)}}] :
            n \in 0..(MaxItems - 1)}

TaskRofiCalls ==
    UNION {{[fn |-> "task_rofi", task |-> NoCallTask, xs |-> xs, r |-> r] :
                r \in RofiAnswers(Len(xs))} : xs \in HarnessTaskLists}

\* the program's variables while only the harness runs
UiIdle ==
    /\ pc = "harness" /\ action = "none" /\ store = <<>> /\ task = <<>>
    /\ input = <<>> /\ ops = <<>> /\ fail = "none" /\ failAt = 0
    /\ dismissed = "none" /\ popups = 0 /\ opened = <<>> /\ items = <<>>
    /\ choice = <<>> /\ answer = NoAnswer /\ steps = 0 /\ ended = "no"

InitPure ==
    /\ call \in FormatCalls \cup RofiCalls \cup TaskRofiCalls
    /\ ret = Pending
    /\ UiIdle

\* format_task(&task)
CallFormatTask ==
    /\ call.fn = "format_task" /\ ret.kind = "pending"
    /\ ret' = [kind |-> "returned", out |-> format_task(call.task), shown |-> <<>>]
    /\ UNCHANGED <<call, uivars>>

\* rich_rofi(prompt, items) with the picker answering call.r
CallRichRofi ==
    /\ call.fn = "rich_rofi" /\ ret.kind = "pending"
    /\ ret' = [kind |-> "returned", out |-> rich_rofi(call.xs, call.r),
               shown |-> labels_of(call.xs)]
    /\ UNCHANGED <<call, uivars>>

\* task_rofi from the query's answer on: sort, label, rich_rofi
CallTaskRofi ==
    /\ call.fn = "task_rofi" /\ ret.kind = "pending"
    /\ \E sorted \in sort_unstable_by_key(call.xs) :
         ret' = [kind |-> "returned", out |-> rich_rofi(label_tasks(sorted), call.r),
                 shown |-> labels_of(label_tasks(sorted))]
    /\ UNCHANGED <<call, uivars>>

NextPure == CallFormatTask \/ CallRichRofi \/ CallTaskRofi

SpecPure == InitPure /\ [][NextPure]_vars

-----------------------------------------------------------------------------
(* Claims about the pure functions (checked under SpecPure)                *)

\* the harness has made a call of fn and holds its result
Returned(fn) == call.fn = fn /\ ret.kind = "returned"

\* C5: rich_rofi maps the selection back to the right object: the labels
\* shown are the items' labels in list order, an answered index inside the
\* list yields the item at that index (the item whose label was shown
\* there), an index outside the list yields no item, and neither does a
\* dismissal or a picker error. Through task_rofi the task returned is the
\* one whose format_task label was shown at the answered index.
C5_RichRofiMapsSelection ==
    /\ Returned("rich_rofi") =>
         LET n == Len(call.xs)
             r == call.r
         IN  /\ Len(ret.shown) = n
             /\ \A i \in 1..n : ret.shown[i] = call.xs[i].label
             /\ (r.kind = "ok" /\ r.idx < n) =>
                    /\ ret.out.kind = "ok"
                    /\ ret.out.item = call.xs[r.idx + 1].item
             /\ (r.kind = "ok" /\ r.idx >= n) => ret.out.kind # "ok"
             /\ r.kind # "ok" => ret.out.kind = r.kind
    /\ Returned("task_rofi") =>
         /\ Len(ret.shown) = Len(call.xs)
         /\ call.r.kind = "ok" =>
              /\ ret.out.kind = "ok"
              /\ \E i \in 1..Len(call.xs) : call.xs[i] = ret.out.item
              /\ format_task(ret.out.item).label = ret.shown[call.r.idx + 1]
         /\ call.r.kind # "ok" => ret.out.kind = call.r.kind

\* C5 witness: an index that is not the last row of a list of several
\* items, two of which carry the same label, was answered and an item came back
C5_Witness ==
    /\ Returned("rich_rofi")
    /\ call.r.kind = "ok" /\ call.r.idx + 1 < Len(call.xs)
    /\ call.xs[1].label = call.xs[Len(call.xs)].label
    /\ call.xs[call.r.idx + 1].item # call.xs[Len(call.xs)].item
    /\ ret.out.kind = "ok"

\* C6: format_task never fails, and the description field of the label is
\* exactly 60 wide: a description of at most 60 characters kept whole and
\* right-padded with spaces, a longer one cut to its first 57 characters
\* followed by "..."
C6_FormatTaskFixedWidth ==
    Returned("format_task") =>
        LET d == call.task.description
        IN  /\ ret.out.kind = "ok"
            /\ Len(ret.out.parts[2]) = 60
            /\ Len(d) <= 60 => ret.out.parts[2] = d \o [i \in 1..(60 - Len(d)) |-> 32]
            /\ Len(d) > 60 => ret.out.parts[2] = SubSeq(d, 1, 57) \o <<46, 46, 46>>

\* C6, restricted to descriptions of ASCII characters only, where a
\* character is a byte: this much the code does
C6_AsciiOnly ==
    (Returned("format_task") /\ \A i \in 1..Len(call.task.description) :
                                    call.task.description[i] < 128)
        => LET d == call.task.description
           IN  /\ ret.out.kind = "ok"
               /\ Len(ret.out.parts[2]) = 60
               /\ Len(d) <= 60 => ret.out.parts[2] = d \o [i \in 1..(60 - Len(d)) |-> 32]
               /\ Len(d) > 60 => ret.out.parts[2] = SubSeq(d, 1, 57) \o <<46, 46, 46>>

-----------------------------------------------------------------------------
(* Claims about the menu loop (checked under Spec)                         *)

\* how often x occurs in the sequence o
Count(o, x) == Cardinality({i \in 1..Len(o) : o[i] = x})

\* the invocations that write to the task store, and those that read its records
WriteOps == {"task:add", "task:mod", "tw:save"}
ReadOps == {"tw:query"}

\* every write in o has a read somewhere before it
ReadBeforeWrite(o) ==
    \A i \in 1..Len(o) : o[i] \in WriteOps => \E j \in 1..(i - 1) : o[j] \in ReadOps

\* the failures C1 names: a task command exiting non-zero or printing bytes
\* that are not UTF-8, a missing output marker, a failed query or save
C1Failures == {"nonzero", "non_utf8", "marker", "config_missing", "query", "save"}

\* the error value is in main's hands (popup not yet shown), or the popup was shown
ReachedPopup == (pc = "main_err" /\ popups = 0) \/ (pc = "exited" /\ popups = 1)

\* C1: every failure during an action reaches main as an error value and is
\* shown in one error popup; the program never ends on it without the popup
C1_FailuresShowPopup == fail \in C1Failures => ReachedPopup

\* C1, leaving out the query of task_rofi (the unwrap): every other failure
\* C1 names does reach the popup
C1_ExceptTaskRofiQuery ==
    (fail \in C1Failures /\ ~(fail = "query" /\ action # "Add")) => ReachedPopup

\* C2 as stated: whichever picker the user dismisses, the program ends and
\* no error popup is shown
C2_DismissalEndsProgram ==
    dismissed # "none" => (pc = "exited" /\ ended = "Interrupted" /\ popups = 0)

\* C2 amended: a dismissal never shows an error popup and is no failure;
\* it ends the program, except in the task picker of List, where it leads
\* back to the action menu
C2_DismissalIsBenign ==
    dismissed # "none" =>
        /\ popups = 0 /\ fail = "none"
        /\ IF dismissed = "task" /\ action = "List"
           THEN pc = "menu" /\ ended = "no"
           ELSE pc = "exited" /\ ended = "Interrupted"

\* C2 witness: the annotation picker of Open was dismissed
C2_Witness == dismissed = "annotation" /\ action = "Open" /\ pc = "exited"

\* C3 as stated: in every step, Add included, the store is read before it
\* is written
C3_ReadThenWrite == ReadBeforeWrite(ops)

\* C3 amended: in every step but Add the store's records are read before the
\* first write; Add writes first (task add) with no read before it, and only
\* its later save of the annotations follows a read
C3_ReadThenWriteExceptAdd ==
    /\ action # "Add" => ReadBeforeWrite(ops)
    /\ action = "Add" =>
         /\ \A i \in 1..Len(ops) : ops[i] = "task:add" => \A j \in 1..i : ops[j] \notin ReadOps
         /\ \A i \in 1..Len(ops) : ops[i] = "tw:save" => \E j \in 1..(i - 1) : ops[j] = "tw:query"

\* C3 witness: a Wait step that ran its mod command and its save
C3_Witness ==
    action = "Wait" /\ pc = "menu" /\ Count(ops, "task:mod") = 1 /\ Count(ops, "tw:save") = 1

\* C4: no retry. Once an invocation has failed (a dismissal is no failure),
\* the loop is over: nothing is invoked after the failing invocation but at
\* most the one error popup, and then the program has ended
C4_NoRetry ==
    fail # "none" =>
        /\ pc \in {"main_err", "exited"}
        /\ failAt <= Len(ops)
        /\ SubSeq(ops, failAt + 1, Len(ops)) \in {<<>>, <<"rofi:error">>}
        /\ popups = Len(ops) - failAt
        /\ pc = "main_err" => (popups = 0 /\ ended = "no")
        /\ pc = "exited" => ended \in {"error", "panic"}

\* C4 witness: a save failed, the popup was shown, the program ended
C4_Witness ==
    fail = "save" /\ pc = "exited" /\ ended = "error" /\ popups = 1
        /\ ops[Len(ops)] = "rofi:error" /\ ops[Len(ops) - 1] = "tw:save"

\* a description that starts with "http://" or "https://"
LinkText(d) ==
    \/ Len(d) >= 7 /\ SubSeq(d, 1, 7) = <<104, 116, 116, 112, 58, 47, 47>>
    \/ Len(d) >= 8 /\ SubSeq(d, 1, 8) = <<104, 116, 116, 112, 115, 58, 47, 47>>

\* the Open action has a chosen task
OpenHasTask ==
    action = "Open" /\ (\/ pc \in {"open_that", "annotation_pick"}
                        \/ fail \in {"no_annotations", "no_links", "open"}
                        \/ Count(ops, "rofi:annotation") > 0
                        \/ Count(ops, "open") > 0)

\* the link annotations of the chosen task
LinksOf(t) ==
    IF IsSome(t.annotations)
    THEN SelectSeq(Unwrap(t.annotations), LAMBDA a : LinkText(a.description))
    ELSE <<>>

\* xs holds the elements of ys, each as often
SameElements(xs, ys) ==
    /\ Len(xs) = Len(ys)
    /\ \A i \in 1..Len(xs) : Count(xs, xs[i]) = Count(ys, xs[i])

\* C7: Open hands the open handler at most one thing, the description of a
\* link annotation of the chosen task: nothing (an error) when the task has
\* no link, the one link without a menu when it has one, and with several
\* the annotation at the row the user answered in a menu of all the links
\* in descending label order
C7_OpenOnlyLinks ==
    /\ Len(opened) <= 1 /\ Count(ops, "open") = Len(opened)
    /\ opened # <<>> => (OpenHasTask /\ LinkText(opened[1]))
    /\ OpenHasTask =>
         LET links == LinksOf(task)
         IN  /\ opened # <<>> => \E i \in 1..Len(links) : links[i].description = opened[1]
             /\ Len(links) = 0 =>
                  /\ fail \in {"no_annotations", "no_links"}
                  /\ opened = <<>> /\ Count(ops, "rofi:annotation") = 0
             /\ Len(links) = 1 =>
                  /\ Count(ops, "rofi:annotation") = 0
                  /\ pc = "open_that" \/ opened = <<links[1].description>>
             /\ Len(links) > 1 =>
                  /\ SameElements([i \in 1..Len(items) |-> items[i].item], links)
                  /\ \A i \in 1..Len(items) :
                        items[i].label = format_date(items[i].item.entry) \o <<32>>
                                            \o items[i].item.description
                  /\ \A i, j \in 1..Len(items) :
                        i < j => ~str_lt(items[i].label, items[j].label)
                  /\ opened # <<>> =>
                        /\ \E i \in 1..(Len(ops) - 1) :
                              ops[i] = "rofi:annotation" /\ ops[i + 1] = "open"
                        /\ answer.kind = "ok"
                        /\ opened[1] = items[answer.idx + 1].item.description

\* C7 witness: of a task with three annotations, two of them links, the
\* link in the second row of the menu was opened
C7_Witness ==
    /\ action = "Open" /\ ended = "Open" /\ Len(opened) = 1
    /\ annotation_count(task) = 3 /\ Len(items) = 2
    /\ answer.kind = "ok" /\ answer.idx = 1
    /\ opened[1] = LinkA

\* a successful Wait step is back at the top of the loop
WaitDone ==
    action = "Wait" /\ pc = "menu" /\ fail = "none" /\ ops # <<>> /\ ops[Len(ops)] = "tw:save"

\* C8: after a successful Wait the chosen task's record in the store has
\* its wait set to what the user entered
C8_WaitSurvivesSave == WaitDone => store[task.uuid].wait = Some(input)

\* C8, what the code does instead: the mod command sets the wait, and the
\* save that follows puts back the snapshot read before it
C8_SaveRestoresSnapshot ==
    /\ (action = "Wait" /\ pc = "save") => store[task.uuid].wait = Some(input)
    /\ WaitDone => (store[task.uuid] = task /\ store[task.uuid].wait = None)

\* C9: List never writes to the store; whether the user selects a task or
\* dismisses the list, the program is back at the action menu; any other
\* error during List is propagated to main and ends the loop
C9_ListNeverWrites ==
    action = "List" =>
        /\ \A i \in 1..Len(ops) : ops[i] \notin WriteOps
        /\ (Count(ops, "rofi:task") = 1 /\ answer.kind \in {"ok", "Interrupted"}) =>
               (pc = "menu" /\ ended = "no" /\ fail = "none")
        /\ fail # "none" => ReachedPopup

\* C9, leaving out the two panics of task_rofi (the unwrap of the query and
\* the slice of format_task): the rest of C9 holds
C9_ExceptPanics ==
    action = "List" =>
        /\ \A i \in 1..Len(ops) : ops[i] \notin WriteOps
        /\ (Count(ops, "rofi:task") = 1 /\ answer.kind \in {"ok", "Interrupted"}) =>
               (pc = "menu" /\ ended = "no" /\ fail = "none")
        /\ (fail # "none" /\ fail \notin {"query", "format_task"}) => ReachedPopup

\* the actions that save the chosen task
SavingActions == {"Done", "Start", "Stop", "Delete", "Annotate", "Wait"}

\* C10: the loop ends only through Exit, a successful Open, a dismissal
\* outside List, or an error; every other action that completes is back at
\* the action menu, where Done, Start, Stop, Delete, Annotate and Wait have
\* saved the chosen task exactly once and Open and Exit have saved nothing
C10_LoopEnds ==
    /\ (pc = "exited") = (ended # "no")
    /\ ended \in {"no", "Exit", "Open", "Interrupted", "error", "panic"}
    /\ ended = "Exit" => (action = "Exit" /\ fail = "none" /\ ops = <<"rofi:action">>)
    /\ ended = "Open" =>
          (action = "Open" /\ fail = "none" /\ ops[Len(ops)] = "open" /\ Len(opened) = 1)
    /\ ended = "Interrupted" =>
          (dismissed # "none" /\ ~(dismissed = "task" /\ action = "List") /\ fail = "none")
    /\ ended \in {"error", "panic"} => fail # "none"
    /\ (pc = "menu" /\ steps > 0) =>
          /\ action \in {"Add", "List", "Mod"} \cup SavingActions
          /\ fail = "none"
          /\ action \in SavingActions =>
                (Count(ops, "tw:save") = 1 /\ ops[Len(ops)] = "tw:save" /\ store[task.uuid] = task)
    /\ action \in {"Open", "Exit", "List", "Mod"} => Count(ops, "tw:save") = 0
    /\ Count(ops, "tw:save") <= 1

\* C10 witness: a second action, Annotate, has completed with its one save
\* and the loop is back at the action menu
C10_Witness ==
    pc = "menu" /\ steps = 2 /\ action = "Annotate" /\ Count(ops, "tw:save") = 1

====
